---- MODULE Spec2Model ----
(***************************************************************************)
(* Notification delivery pipeline: the ingress gateway's POST              *)
(* /notifications/ handler and the email / push workers' consume handlers, *)
(* with the status store (Redis) and the bus (RabbitMQ) they share.        *)
(*                                                                         *)
(* Every `await` of a handler is a suspension point: the code between two  *)
(* awaits is one action.  An action named XReply is the resumption of a    *)
(* handler when the reply to the command it awaits arrives; the command    *)
(* takes effect in the store at that moment.  The handlers of different    *)
(* deliveries interleave freely at their awaits: the consume callback is   *)
(* async, no prefetch limit is set, and a channel's queue may be drained   *)
(* by several instances of its worker service.                             *)
(***************************************************************************)
EXTENDS Integers, Sequences, FiniteSets, TLC

(* ------------------------------ bounds -------------------------------- *)
MaxDeliveries == 3      \* deliveries the bus hands out in one behaviour
MaxProduced == 2        \* messages producers other than the worker publish
MaxAttemptsBound == 3   \* MAX_ATTEMPTS is configured in 1..MaxAttemptsBound
MaxRequests == 2        \* POST /notifications/ requests in one behaviour
MaxCrashes == 1         \* worker process stops in one behaviour
MaxStatusRequests == 1  \* POST /:notification_type/status/ requests in one behaviour

(* ------------------------- program constants --------------------------- *)
IDEMPOTENCY_TTL_SECONDS == 86400
errorThresholdPercentage == 60   \* breakerOptions
STATUS_TTL_SECONDS == 86400

Channels == {"email", "push"}
RequestIds == {"r1"}
NoRequestId == "none"    \* payload.request_id missing
NoAttempts == -1         \* payload.attempts missing

\* What a message body can be, as far as the handler distinguishes:
\*   badjson  - not JSON
\*   notobject - JSON that is no object: null, a number, a string, a boolean
\*   ok       - metadata.email present / metadata.push_token of length >= 10
\*   missing  - metadata.email / metadata.push_token absent
\*   short    - the recipient field is a non-empty string shorter than 10
Bodies == {"badjson", "notobject", "ok", "missing", "short"}

DeliveryIds == 1..MaxDeliveries
RequestNos == 1..MaxRequests
StatusRequestNos == 1..MaxStatusRequests

(* ----------------------------- store keys ------------------------------ *)
\* uuidv4(): a fresh id, different for every delivery
uuidv4(d) == "uuid-" \o ToString(d)

\* const request_id = payload.request_id || uuidv4()
request_id(rid, d) == IF rid = NoRequestId THEN uuidv4(d) ELSE rid

\* `<channel>:idempotency:${request_id}`
idempotency_key(ch, r) == ch \o ":idempotency:" \o r

\* `idemp:${payload.request_id}`
idempotencyKey(r) == "idemp:" \o r

AllIds == RequestIds \cup {uuidv4(d) : d \in DeliveryIds}
WorkerKeys == {idempotency_key(ch, r) : ch \in Channels, r \in AllIds}
GatewayKeys == {idempotencyKey(r) : r \in RequestIds}
Keys == WorkerKeys \cup GatewayKeys

Absent == [status |-> "absent", error |-> "", ex |-> 0]
Record(s, e, ttl) == [status |-> s, error |-> e, ex |-> ttl]

VARIABLES
  channel,       \* the worker service observed: email_service or push_service
  MAX_ATTEMPTS,  \* the configured attempt limit of the worker
  store,         \* status store: key -> record (Absent when no key)
  dl,            \* deliveries: id -> message, handler position and locals
  timers,        \* pending setTimeout callbacks of the workers
  failedQ,       \* FailedRecords published to routing key `failed`
  sends,         \* per worker key: adapter calls started
  sendlog,       \* per worker key: outcomes of the adapter calls that returned
  produced,      \* messages published by outside producers so far
  crashes,       \* worker process stops so far
  gw,            \* gateway: request no -> handler position and locals
  channelOpen,   \* gateway: its bus channel is open
  breaker,       \* the worker process's circuit breaker around the adapter
  statusRecs,    \* status store, key family status:<notification_id>
  sreq           \* gateway: status request no -> handler position and locals

vars == <<channel, MAX_ATTEMPTS, store, dl, timers, failedQ, sends, sendlog,
          produced, crashes, gw, channelOpen, breaker, statusRecs, sreq>>

workerVars == <<dl, timers, failedQ, sends, sendlog, produced, crashes, breaker>>
gatewayVars == <<gw, channelOpen, sreq>>

(* ------------------------------ the store ------------------------------ *)
\* Redis SET key value [EX seconds]: the arguments after the value must be
\* empty or the pair EX <positive integer>; anything else is answered
\* "ERR syntax error" and the key is left as it was.
SetSyntaxOk(opts) ==
  \/ opts = <<>>
  \/ Len(opts) = 2 /\ opts[1] = "EX" /\ opts[2] \in Nat \ {0}

SetExpiry(opts) == IF Len(opts) = 2 THEN opts[2] ELSE 0

\* redis.get(key): a record, or null when the key is absent
RedisGet(st, k) == st[k]

\* redis.set(key, value, ...opts): the store after the command
RedisSet(st, k, status, error, opts) ==
  IF SetSyntaxOk(opts)
  THEN [st EXCEPT ![k] = Record(status, error, SetExpiry(opts))]
  ELSE st

(* ---------------------------- deliveries ------------------------------- *)
NoDelivery ==
  [pc |-> "none", ch |-> "email", rid |-> NoRequestId, body |-> "ok",
   att |-> NoAttempts, attempts |-> 0, acks |-> 0, err |-> "",
   redelivered |-> FALSE, wrote |-> FALSE, from |-> 0]

\* A message on the queue of channel ch, not yet handed to the handler.
Queued(ch, rid, body, att, redel, from) ==
  [NoDelivery EXCEPT !.pc = "queued", !.ch = ch, !.rid = rid, !.body = body,
                     !.att = att, !.redelivered = redel, !.from = from]

FreeSlots == {d \in DeliveryIds : dl[d].pc = "none"}
NextSlot == CHOOSE d \in FreeSlots : \A e \in FreeSlots : d <= e

KeyOf(d) == idempotency_key(dl[d].ch, request_id(dl[d].rid, d))

\* payload.attempts = payload.attempts ? Number(payload.attempts) : 0
\* Mutant of NormalizeAttempts: every delivery starts counting at 0.
NormalizeAttempts_Reset(att) == 0

NormalizeAttempts(att) == IF att = NoAttempts \/ att = 0 THEN 0 ELSE att

InFlight == {"get", "setproc", "send", "setdeliv", "setfailed"}

TypeOK ==
  /\ MAX_ATTEMPTS \in 1..MaxAttemptsBound
  /\ DOMAIN store = Keys
  /\ DOMAIN dl = DeliveryIds
  /\ \A d \in DeliveryIds : dl[d].acks \in 0..2
  /\ produced \in 0..MaxProduced
  /\ crashes \in 0..MaxCrashes

(* ------------------------- circuit breaker ----------------------------- *)
\* new CircuitBreaker(raw_send, breakerOptions): one per worker process,
\* closed, with an empty statistics window.  pendingClose: the breaker is
\* half open and its probe call has not been let through yet.
NewBreaker == [state |-> "closed", pendingClose |-> FALSE, fires |-> 0, failures |-> 0]

\* fire() rejects with "Breaker is open", without calling the adapter, when
\* the breaker is not closed and no probe is due.
BreakerRejects(b) == b.state # "closed" /\ ~b.pendingClose

BreakerOpenError == "Breaker is open"

\* fire(): the call is counted; a probe that is due is taken by this call.
BreakerFire(b) == [b EXCEPT !.fires = @ + 1, !.pendingClose = FALSE]

\* The adapter's promise resolved: a half-open breaker closes.
BreakerSuccess(b) == IF b.state = "halfOpen" THEN [b EXCEPT !.state = "closed"] ELSE b

\* The adapter's promise rejected or timed out: the failure is counted, and
\* the breaker opens when it is half open or when the failures are more
\* than errorThresholdPercentage percent of the calls in the window.
BreakerFailure(b) ==
  LET c == [b EXCEPT !.failures = @ + 1] IN
  IF c.state = "halfOpen" \/ c.failures * 100 > errorThresholdPercentage * c.fires
  THEN [c EXCEPT !.state = "open", !.pendingClose = FALSE]
  ELSE c

(* ------------------------- worker: helpers ----------------------------- *)
\* channel.ack(msg)
Ack(rec) == [rec EXCEPT !.acks = @ + 1]

\* The recipient check at the head of the try block: the message of the
\* error it throws, "" when it passes.
\*   email: if (!to) throw ...
\*   push:  if (!token) throw ...; if (typeof token !== "string" || token.length < 10) throw ...
ValidationError(ch, body) ==
  IF ch = "email"
  THEN IF body = "missing" THEN "recipient email missing in metadata.email" ELSE ""
  ELSE IF body = "missing" THEN "push_token_missing"
       ELSE IF body = "short" THEN "invalid_push_token" ELSE ""

\* What the breaker-wrapped adapter call can come back with.  The push
\* worker also throws when the response carries a per-device error.
SendOutcomes(ch) ==
  IF ch = "email" THEN {"ok", "throw"} ELSE {"ok", "throw", "device_error"}

SendError(outcome) == IF outcome = "throw" THEN "send_error" ELSE "fcm_error"

\* Mutant of delay_ms: the exponent is the attempts, not the attempts less one.
delay_ms_NoOffset(a) == 2000 * 2 ^ a

\* const delay_ms = 2000 * Math.pow(2, payload.attempts - 1)
delay_ms(a) == 2000 * 2 ^ (a - 1)

\* Mutant of Retrying: the delivery is acknowledged without a timer having
\* been started.
Retrying_NoTimer(d, e, a) ==
  /\ timers' = timers
  /\ dl' = [dl EXCEPT ![d] = Ack([@ EXCEPT !.attempts = a, !.err = e, !.pc = "done"])]
  /\ failedQ' = failedQ

\* else branch of the catch block: setTimeout(republish, delay_ms); ack
Retrying(d, e, a) ==
  /\ timers' = timers \cup
       {[ch |-> dl[d].ch, rid |-> dl[d].rid, body |-> dl[d].body,
         attempts |-> a, delay |-> delay_ms(a), left |-> delay_ms(a),
         from |-> d]}
  /\ dl' = [dl EXCEPT ![d] = Ack([@ EXCEPT !.attempts = a, !.err = e, !.pc = "done"])]
  /\ failedQ' = failedQ

\* Mutant of DeadLettering: the delivery is acknowledged with the publish,
\* before the `failed` record is written.
DeadLettering_AckFirst(d, e, a) ==
  /\ failedQ' = Append(failedQ,
       [key |-> KeyOf(d), ch |-> dl[d].ch, rid |-> dl[d].rid,
        attempts |-> a, error |-> e, from |-> d])
  /\ dl' = [dl EXCEPT ![d] = Ack([@ EXCEPT !.attempts = a, !.err = e, !.pc = "setfailed"])]
  /\ timers' = timers

\* then branch of the catch block: publish the FailedRecord to `failed`,
\* then await the write of the `failed` status record
DeadLettering(d, e, a) ==
  /\ failedQ' = Append(failedQ,
       [key |-> KeyOf(d), ch |-> dl[d].ch, rid |-> dl[d].rid,
        attempts |-> a, error |-> e, from |-> d])
  /\ dl' = [dl EXCEPT ![d] = [@ EXCEPT !.attempts = a, !.err = e, !.pc = "setfailed"]]
  /\ timers' = timers

\* catch (err): payload.attempts += 1; if (payload.attempts >= MAX_ATTEMPTS) ... else ...
Failing(d, e) ==
  LET a == dl[d].attempts + 1 IN
  IF a >= MAX_ATTEMPTS THEN DeadLettering(d, e, a) ELSE Retrying(d, e, a)

(* ------------------------- worker: actions ----------------------------- *)
\* A producer publishes a message to the worker's routing key.  Messages of
\* outside producers carry no `attempts` field.  (A body that is no JSON
\* object has no request_id; the email worker reads a short recipient as
\* present.)
Produce(rid, body) ==
  /\ produced < MaxProduced
  /\ FreeSlots # {}
  /\ body \in {"badjson", "notobject"} => rid = NoRequestId
  /\ body = "short" => channel = "push"
  /\ dl' = [dl EXCEPT ![NextSlot] = Queued(channel, rid, body, NoAttempts, FALSE, 0)]
  /\ produced' = produced + 1
  /\ UNCHANGED <<channel, MAX_ATTEMPTS, store, timers, failedQ, sends, sendlog, crashes, gw, channelOpen, breaker, statusRecs, sreq>>

\* Mutant of Deliver: a body that fails to parse is handled like any other.
Deliver_ParseErrorIgnored(d) ==
  /\ dl[d].pc = "queued"
  /\ dl[d].ch = channel
  /\ \A e \in DeliveryIds : (e < d /\ dl[e].ch = dl[d].ch) => dl[e].pc # "queued"
  /\ dl' = [dl EXCEPT ![d] =
       IF @.body = "notobject"
       THEN [@ EXCEPT !.pc = "unhandled", !.err = "TypeError"]
       ELSE [@ EXCEPT !.attempts = NormalizeAttempts(dl[d].att), !.pc = "get"]]
  /\ UNCHANGED <<channel, MAX_ATTEMPTS, store, timers, failedQ, sends, sendlog, produced, crashes, gw, channelOpen, breaker, statusRecs, sreq>>

\* The bus hands delivery d to the consume handler (in queue order):
\* JSON.parse, normalisation of attempts, redis.get issued.  A body that
\* parses to null or to a primitive makes `payload.request_id` (null) or
\* the assignment `payload.attempts = ...` (a primitive, in module code,
\* which is strict) throw a TypeError outside any try block.
Deliver(d) ==
  /\ dl[d].pc = "queued"
  /\ dl[d].ch = channel
  /\ \A e \in DeliveryIds : (e < d /\ dl[e].ch = dl[d].ch) => dl[e].pc # "queued"
  /\ dl' = [dl EXCEPT ![d] =
       IF @.body = "badjson"
       THEN Ack([@ EXCEPT !.pc = "done"])
       ELSE IF @.body = "notobject"
       THEN [@ EXCEPT !.pc = "unhandled", !.err = "TypeError"]
       ELSE [@ EXCEPT !.attempts = NormalizeAttempts(dl[d].att), !.pc = "get"]]
  /\ UNCHANGED <<channel, MAX_ATTEMPTS, store, timers, failedQ, sends, sendlog, produced, crashes, gw, channelOpen, breaker, statusRecs, sreq>>

\* if (already) { ack; return }
Duplicate(d) == dl' = [dl EXCEPT ![d] = Ack([@ EXCEPT !.pc = "done"])]

\* const already = await redis.get(idempotency_key) resumes
GetReply(d) ==
  /\ dl[d].pc = "get"
  /\ IF RedisGet(store, KeyOf(d)).status # "absent"
     THEN Duplicate(d)
     ELSE dl' = [dl EXCEPT ![d].pc = "setproc"]
  /\ UNCHANGED <<channel, MAX_ATTEMPTS, store, timers, failedQ, sends, sendlog, produced, crashes, gw, channelOpen, breaker, statusRecs, sreq>>

\* Mutant of SetProcessingReply: the handler goes on without the
\* `processing` record having been written.
SetProcessingReply_NoWrite(d) ==
  /\ dl[d].pc = "setproc"
  /\ store' = store
  /\ IF ValidationError(dl[d].ch, dl[d].body) # ""
     THEN /\ Failing(d, ValidationError(dl[d].ch, dl[d].body))
          /\ UNCHANGED <<sends, breaker>>
     ELSE /\ breaker' = BreakerFire(breaker)
          /\ IF BreakerRejects(breaker)
             THEN /\ Failing(d, BreakerOpenError)
                  /\ sends' = sends
             ELSE /\ dl' = [dl EXCEPT ![d].pc = "send"]
                  /\ sends' = [sends EXCEPT ![KeyOf(d)] = @ + 1]
                  /\ UNCHANGED <<timers, failedQ>>
  /\ UNCHANGED <<channel, MAX_ATTEMPTS, sendlog, produced, crashes, gw, channelOpen, statusRecs, sreq>>

\* Mutant of SetProcessingReply: the adapter is called whatever the state
\* of the breaker.
SetProcessingReply_IgnoresBreaker(d) ==
  /\ dl[d].pc = "setproc"
  /\ store' = RedisSet(store, KeyOf(d), "processing", "", <<"EX", IDEMPOTENCY_TTL_SECONDS>>)
  /\ IF ValidationError(dl[d].ch, dl[d].body) # ""
     THEN /\ Failing(d, ValidationError(dl[d].ch, dl[d].body))
          /\ UNCHANGED <<sends, breaker>>
     ELSE /\ breaker' = BreakerFire(breaker)
          /\ dl' = [dl EXCEPT ![d].pc = "send"]
          /\ sends' = [sends EXCEPT ![KeyOf(d)] = @ + 1]
          /\ UNCHANGED <<timers, failedQ>>
  /\ UNCHANGED <<channel, MAX_ATTEMPTS, sendlog, produced, crashes, gw, channelOpen, statusRecs, sreq>>

\* await redis.set(key, {status: "processing"}, "EX", ttl) resumes; the
\* recipient check runs and either throws into the catch block or the
\* breaker is fired: it calls the adapter, or rejects at once and the await
\* throws into the catch block.
SetProcessingReply(d) ==
  /\ dl[d].pc = "setproc"
  /\ store' = RedisSet(store, KeyOf(d), "processing", "", <<"EX", IDEMPOTENCY_TTL_SECONDS>>)
  /\ IF ValidationError(dl[d].ch, dl[d].body) # ""
     THEN /\ Failing(d, ValidationError(dl[d].ch, dl[d].body))
          /\ UNCHANGED <<sends, breaker>>
     ELSE /\ breaker' = BreakerFire(breaker)
          /\ IF BreakerRejects(breaker)
             THEN /\ Failing(d, BreakerOpenError)
                  /\ sends' = sends
             ELSE /\ dl' = [dl EXCEPT ![d].pc = "send"]
                  /\ sends' = [sends EXCEPT ![KeyOf(d)] = @ + 1]
                  /\ UNCHANGED <<timers, failedQ>>
  /\ UNCHANGED <<channel, MAX_ATTEMPTS, sendlog, produced, crashes, gw, channelOpen, statusRecs, sreq>>

\* await breaker.fire(...) resumes with the adapter's outcome.  A response
\* with a per-device error resolves the adapter's promise (a success for the
\* breaker); the handler throws on it afterwards.
SendReply(d, outcome) ==
  /\ dl[d].pc = "send"
  /\ outcome \in SendOutcomes(dl[d].ch)
  /\ sendlog' = [sendlog EXCEPT ![KeyOf(d)] = Append(@, outcome)]
  /\ breaker' = IF outcome = "throw" THEN BreakerFailure(breaker) ELSE BreakerSuccess(breaker)
  /\ IF outcome = "ok"
     THEN /\ dl' = [dl EXCEPT ![d].pc = "setdeliv"]
          /\ UNCHANGED <<timers, failedQ>>
     ELSE Failing(d, SendError(outcome))
  /\ UNCHANGED <<channel, MAX_ATTEMPTS, store, sends, produced, crashes, gw, channelOpen, statusRecs, sreq>>

\* await redis.set(key, {status: "delivered"}, "EX", ttl) resumes; ack
SetDeliveredReply(d) ==
  /\ dl[d].pc = "setdeliv"
  /\ store' = RedisSet(store, KeyOf(d), "delivered", "", <<"EX", IDEMPOTENCY_TTL_SECONDS>>)
  /\ dl' = [dl EXCEPT ![d] = Ack([@ EXCEPT !.pc = "done"])]
  /\ UNCHANGED <<channel, MAX_ATTEMPTS, timers, failedQ, sends, sendlog, produced, crashes, gw, channelOpen, breaker, statusRecs, sreq>>

\* await redis.set(key, {status: "failed", error}, "EX", ttl) resumes; ack
SetFailedReply(d) ==
  /\ dl[d].pc = "setfailed"
  /\ store' = RedisSet(store, KeyOf(d), "failed", dl[d].err, <<"EX", IDEMPOTENCY_TTL_SECONDS>>)
  /\ dl' = [dl EXCEPT ![d] = Ack([@ EXCEPT !.pc = "done"])]
  /\ UNCHANGED <<channel, MAX_ATTEMPTS, timers, failedQ, sends, sendlog, produced, crashes, gw, channelOpen, breaker, statusRecs, sreq>>

\* The setTimeout callback runs: channel.publish(EXCHANGE, <own key>, payload)
TimerFire(t) ==
  /\ t \in timers
  /\ FreeSlots # {}
  /\ dl' = [dl EXCEPT ![NextSlot] = Queued(t.ch, t.rid, t.body, t.attempts, FALSE, t.from)]
  /\ timers' = timers \ {t}
  /\ UNCHANGED <<channel, MAX_ATTEMPTS, store, failedQ, sends, sendlog, produced, crashes, gw, channelOpen, breaker, statusRecs, sreq>>

FireTimer == \E t \in timers : TimerFire(t)

\* Time passes in the worker's process: every pending timer has that much
\* less left to wait. (The unit is the shortest delay the worker uses.)
Tick ==
  /\ \E t \in timers : t.left > 0
  /\ timers' = {[t EXCEPT !.left = IF @ > delay_ms(1) THEN @ - delay_ms(1) ELSE 0] :
                  t \in timers}
  /\ UNCHANGED <<channel, MAX_ATTEMPTS, store, dl, failedQ, sends, sendlog, produced, crashes, gw, channelOpen, breaker, statusRecs, sreq>>

\* setTimeout runs the callback once the delay has elapsed, not before.
TimerExpire(t) ==
  /\ t \in timers
  /\ t.left = 0
  /\ TimerFire(t)

\* resetTimeout after the breaker opened: it becomes half open, and the
\* next call is let through as a probe.
BreakerResetTimeout ==
  /\ breaker.state = "open"
  /\ breaker' = [breaker EXCEPT !.state = "halfOpen", !.pendingClose = TRUE]
  /\ UNCHANGED <<channel, MAX_ATTEMPTS, store, dl, timers, failedQ, sends, sendlog, produced, crashes, gw, channelOpen, statusRecs, sreq>>

\* The breaker's rolling statistics window has passed over the calls and
\* failures it counted.
BreakerWindowRoll ==
  /\ breaker.fires > 0 \/ breaker.failures > 0
  /\ breaker' = [breaker EXCEPT !.fires = 0, !.failures = 0]
  /\ UNCHANGED <<channel, MAX_ATTEMPTS, store, dl, timers, failedQ, sends, sendlog, produced, crashes, gw, channelOpen, statusRecs, sreq>>

\* Mutant of StoreFail: a rejected `delivered` write leaves the handler like
\* the other rejected commands.
StoreFail_DeliveredUnhandled(d) ==
  /\ dl[d].pc \in {"get", "setproc", "setdeliv", "setfailed"}
  /\ dl' = [dl EXCEPT ![d].pc = "unhandled", ![d].err = "redis_error"]
  /\ UNCHANGED <<timers, failedQ>>
  /\ UNCHANGED <<channel, MAX_ATTEMPTS, store, sends, sendlog, produced, crashes, gw, channelOpen, breaker, statusRecs, sreq>>

(* ----------------------- worker: infrastructure faults ------------------ *)
\* The status-store command handler d awaits is rejected (store
\* unreachable).  The lookup and the `processing` write are awaited outside
\* the try block and the `failed` write inside the catch block: their
\* rejection leaves the handler.  Only the `delivered` write is inside try.
StoreFail(d) ==
  /\ dl[d].pc \in {"get", "setproc", "setdeliv", "setfailed"}
  /\ IF dl[d].pc = "setdeliv"
     THEN Failing(d, "redis_error")
     ELSE /\ dl' = [dl EXCEPT ![d].pc = "unhandled", ![d].err = "redis_error"]
          /\ UNCHANGED <<timers, failedQ>>
  /\ UNCHANGED <<channel, MAX_ATTEMPTS, store, sends, sendlog, produced, crashes, gw, channelOpen, breaker, statusRecs, sreq>>

Unacked == {d \in DeliveryIds : dl[d].pc \in InFlight \cup {"unhandled"}}

MinOf(S) == CHOOSE x \in S : \A y \in S : x <= y

\* The status-store writes the handlers are waiting for when the process
\* stops: each has either reached the store already or is lost.
OutstandingSets == {d \in Unacked : dl[d].pc \in {"setproc", "setdeliv", "setfailed"}}

StatusWritten(pc) ==
  IF pc = "setproc" THEN "processing"
  ELSE IF pc = "setdeliv" THEN "delivered" ELSE "failed"

RECURSIVE ApplySets(_, _)
ApplySets(st, A) ==
  IF A = {} THEN st
  ELSE LET d == MinOf(A) IN
       ApplySets(RedisSet(st, KeyOf(d), StatusWritten(dl[d].pc),
                          IF dl[d].pc = "setfailed" THEN dl[d].err ELSE "",
                          <<"EX", IDEMPOTENCY_TTL_SECONDS>>),
                 A \ {d})

\* The bus puts the un-acked deliveries U back on the queue, as they were
\* published, marked redelivered.  `wrote` keeps for a stopped handler
\* whether its `processing` record had reached the store.
RECURSIVE Requeue(_, _, _)
Requeue(f, U, A) ==
  IF U = {} THEN f
  ELSE LET d == MinOf(U)
           s == MinOf({x \in DeliveryIds : f[x].pc = "none"})
       IN Requeue([f EXCEPT ![d].pc = "crashed",
                            ![d].wrote = \/ f[d].pc \in {"send", "setdeliv", "setfailed"}
                                         \/ f[d].pc = "setproc" /\ d \in A,
                            ![s] = Queued(f[d].ch, f[d].rid, f[d].body, f[d].att, TRUE, d)],
                  U \ {d}, A)

\* Mutant of Crash: the pending timers outlive the process.
Crash_KeepsTimers(A) ==
  /\ crashes < MaxCrashes
  /\ Unacked # {} \/ timers # {}
  /\ A \subseteq OutstandingSets
  /\ Cardinality(Unacked) <= Cardinality(FreeSlots)
  /\ store' = ApplySets(store, A)
  /\ dl' = Requeue(dl, Unacked, A)
  /\ timers' = timers
  /\ crashes' = crashes + 1
  /\ breaker' = NewBreaker
  /\ UNCHANGED <<channel, MAX_ATTEMPTS, failedQ, sends, sendlog, produced, gw, channelOpen, statusRecs, sreq>>

\* The worker process stops and is restarted: its handlers end where they
\* are, its timers are gone, the bus redelivers what was not acknowledged.
\* A is the set of handlers whose outstanding write reached the store.
Crash(A) ==
  /\ crashes < MaxCrashes
  /\ Unacked # {} \/ timers # {}
  /\ A \subseteq OutstandingSets
  /\ Cardinality(Unacked) <= Cardinality(FreeSlots)
  /\ store' = ApplySets(store, A)
  /\ dl' = Requeue(dl, Unacked, A)
  /\ timers' = {}
  /\ crashes' = crashes + 1
  /\ breaker' = NewBreaker
  /\ UNCHANGED <<channel, MAX_ATTEMPTS, failedQ, sends, sendlog, produced, gw, channelOpen, statusRecs, sreq>>

(* ------------------------------ gateway -------------------------------- *)
NoRequest ==
  [pc |-> "idle", rid |-> "r1", ntype |-> "email", body |-> "ok", code |-> 0,
   message |-> "", data |-> Absent, pubs |-> 0, writes |-> 0, found |-> FALSE,
   open |-> TRUE, keyOk |-> TRUE, worker |-> "absent", after |-> {}]

\* reply.code(c).send(createResponse({message: m, data: x}))
Respond(rec, c, m, x) == [rec EXCEPT !.pc = "done", !.code = c, !.message = m, !.data = x]

\* What is recorded of a request when it arrives: its input, whether the bus
\* channel was open, the status the worker's record of its request id had
\* and the requests that had been answered by then.
Arrived(rec, rid, ntype, body, keyOk) ==
  [rec EXCEPT !.rid = rid, !.ntype = ntype, !.body = body, !.keyOk = keyOk,
              !.open = channelOpen,
              !.worker = store[idempotency_key(ntype, rid)].status,
              !.after = {g \in RequestNos : gw[g].pc = "done"}]

\* Mutant of GwRequest: the x-api-key header is not checked.
GwRequest_NoAuth(h, rid, ntype, body, keyOk) ==
  /\ gw[h].pc = "idle"
  /\ \A g \in RequestNos : g < h => gw[g].pc # "idle"
  /\ gw' = [gw EXCEPT ![h] = [Arrived(@, rid, ntype, body, keyOk) EXCEPT !.pc = "get"]]
  /\ UNCHANGED <<channel, MAX_ATTEMPTS, store, dl, timers, failedQ, sends, sendlog, produced, crashes, channelOpen, breaker, statusRecs, sreq>>

\* A POST /notifications/ arrives with a schema-valid body; the x-api-key
\* header is checked (keyOk: it is present and equals the configured
\* secret) and the idempotency lookup is issued.
GwRequest(h, rid, ntype, body, keyOk) ==
  /\ gw[h].pc = "idle"
  /\ \A g \in RequestNos : g < h => gw[g].pc # "idle"
  /\ gw' = [gw EXCEPT ![h] =
       IF keyOk
       THEN [Arrived(@, rid, ntype, body, keyOk) EXCEPT !.pc = "get"]
       ELSE Respond(Arrived(@, rid, ntype, body, keyOk), 401, "unauthorized", Absent)]
  /\ UNCHANGED <<channel, MAX_ATTEMPTS, store, dl, timers, failedQ, sends, sendlog, produced, crashes, channelOpen, breaker, statusRecs, sreq>>

\* The options the gateway passes to redis.set after key and value:
\* redis.set(idempotencyKey, JSON.stringify(...), IDEMPOTENCY_TTL_SECONDS)
GwSetOptions == <<IDEMPOTENCY_TTL_SECONDS>>

\* Mutant of GwGetReply: a found record does not end the handler.
GwGetReply_NoShortCircuit(h) ==
  /\ gw[h].pc = "get"
  /\ LET existing == RedisGet(store, idempotencyKey(gw[h].rid)) IN
     gw' = [gw EXCEPT ![h] =
       [@ EXCEPT !.found = existing.status # "absent", !.pc = "setpending"]]
  /\ UNCHANGED <<channel, MAX_ATTEMPTS, store, dl, timers, failedQ, sends, sendlog, produced, crashes, channelOpen, breaker, statusRecs, sreq>>

\* const existing = await redis.get(idempotencyKey) resumes
GwGetReply(h) ==
  /\ gw[h].pc = "get"
  /\ LET existing == RedisGet(store, idempotencyKey(gw[h].rid)) IN
     gw' = [gw EXCEPT ![h] =
       IF existing.status # "absent"
       THEN Respond([@ EXCEPT !.found = TRUE], 200, "duplicate_request", existing)
       ELSE [@ EXCEPT !.pc = "setpending"]]
  /\ UNCHANGED <<channel, MAX_ATTEMPTS, store, dl, timers, failedQ, sends, sendlog, produced, crashes, channelOpen, breaker, statusRecs, sreq>>

\* await redis.set(idempotencyKey, {status: "pending"}, ttl) resumes.  A
\* rejected command throws out of the handler (the framework answers 500).
\* Otherwise rabbit.publish runs: it throws when the channel is closed, and
\* the catch block issues the write of the `failed` record.
GwSetPendingReply(h) ==
  /\ gw[h].pc = "setpending"
  /\ IF ~SetSyntaxOk(GwSetOptions)
     THEN /\ gw' = [gw EXCEPT ![h] = Respond(@, 500, "Internal Server Error", Absent)]
          /\ UNCHANGED <<store, dl>>
     ELSE /\ store' = RedisSet(store, idempotencyKey(gw[h].rid), "pending", "", GwSetOptions)
          /\ IF channelOpen
             THEN /\ FreeSlots # {}
                  /\ dl' = [dl EXCEPT ![NextSlot] =
                       Queued(gw[h].ntype, gw[h].rid, gw[h].body, NoAttempts, FALSE, 0)]
                  /\ gw' = [gw EXCEPT ![h] =
                       Respond([@ EXCEPT !.pubs = @ + 1, !.writes = @ + 1],
                               202, "accepted", Absent)]
             ELSE /\ gw' = [gw EXCEPT ![h].pc = "setfailed", ![h].writes = @ + 1]
                  /\ dl' = dl
  /\ UNCHANGED <<channel, MAX_ATTEMPTS, timers, failedQ, sends, sendlog, produced, crashes, channelOpen, breaker, statusRecs, sreq>>

\* await redis.set(idempotencyKey, {status: "failed", error}, ttl) in the
\* catch block resumes; 500 publish_error
GwSetFailedReply(h) ==
  /\ gw[h].pc = "setfailed"
  /\ IF ~SetSyntaxOk(GwSetOptions)
     THEN /\ gw' = [gw EXCEPT ![h] = Respond(@, 500, "Internal Server Error", Absent)]
          /\ store' = store
     ELSE /\ store' = RedisSet(store, idempotencyKey(gw[h].rid), "failed", "Channel closed", GwSetOptions)
          /\ gw' = [gw EXCEPT ![h] = Respond([@ EXCEPT !.writes = @ + 1], 500, "publish_error", Absent)]
  /\ UNCHANGED <<channel, MAX_ATTEMPTS, dl, timers, failedQ, sends, sendlog, produced, crashes, channelOpen, breaker, statusRecs, sreq>>

\* The status-store reply a suspended gateway handler waits for arrives.
GwStoreReply(h) ==
  /\ gw[h].pc \in {"get", "setpending", "setfailed"}
  /\ CASE gw[h].pc = "get" -> GwGetReply(h)
       [] gw[h].pc = "setpending" -> GwSetPendingReply(h)
       [] gw[h].pc = "setfailed" -> GwSetFailedReply(h)

\* The gateway's bus channel closes; the amqp plugin never reopens it.
GwChannelClose ==
  /\ channelOpen
  /\ channelOpen' = FALSE
  /\ UNCHANGED <<channel, MAX_ATTEMPTS, store, dl, timers, failedQ, sends, sendlog, produced, crashes, gw, breaker, statusRecs, sreq>>

(* ---------------------- gateway: status ingestion ---------------------- *)
\* What a field of the request body can be, besides a non-empty string:
\* absent from the body, or the empty string.  Both are falsy.
Missing == "undefined"
Falsy(v) == v \in {Missing, ""}

NotificationIds == {"n7"}
StatusValues == {"delivered", "pending", "failed"}

\* `status:${notification_id}`
statusKey(n) == "status:" \o n
StatusKeys == {statusKey(n) : n \in NotificationIds}

\* new Date().toISOString()
Now == "now"

\* const statusData = { notification_id, status,
\*   timestamp: timestamp || new Date().toISOString(), error: error || null }
statusData(n, st, ts, er) ==
  [notification_id |-> n, status |-> st,
   timestamp |-> IF Falsy(ts) THEN Now ELSE ts,
   error |-> IF Falsy(er) THEN "null" ELSE er]

NoStatusRecord ==
  [notification_id |-> "", status |-> "absent", timestamp |-> "", error |-> "", ex |-> 0]

\* The record redis.set(key, JSON.stringify(data), "EX", ttl) leaves at the key
StatusRecord(data, ttl) ==
  [notification_id |-> data.notification_id, status |-> data.status,
   timestamp |-> data.timestamp, error |-> data.error, ex |-> ttl]

NoStatusRequest ==
  [pc |-> "idle", notification_type |-> "email", body |-> "object",
   notification_id |-> Missing, status |-> Missing, timestamp |-> Missing,
   error |-> Missing, keyOk |-> TRUE, code |-> 0, message |-> ""]

StatusRespond(rec, c, m) == [rec EXCEPT !.pc = "done", !.code = c, !.message = m]

\* A POST /:notification_type/status/ arrives.  body is "object" when
\* req.body is a JSON object and "null" when it is null or undefined (a
\* JSON null, or a request without a body): destructuring it throws a
\* TypeError before any check, which the framework answers with 500.
\* Otherwise the checks run in the order api key, notification_type,
\* notification_id and status, and the write is issued.
StatusRequest(h, ntype, body, n, st, ts, er, keyOk) ==
  /\ sreq[h].pc = "idle"
  /\ \A g \in StatusRequestNos : g < h => sreq[g].pc # "idle"
  /\ body = "null" => n = Missing /\ st = Missing /\ ts = Missing /\ er = Missing
  /\ LET rec == [sreq[h] EXCEPT !.notification_type = ntype, !.body = body,
                                !.notification_id = n, !.status = st,
                                !.timestamp = ts, !.error = er, !.keyOk = keyOk]
     IN sreq' = [sreq EXCEPT ![h] =
          IF body = "null" THEN StatusRespond(rec, 500, "Internal Server Error")
          ELSE IF ~keyOk THEN StatusRespond(rec, 401, "unauthorized")
          ELSE IF ntype \notin {"email", "push"}
          THEN StatusRespond(rec, 400, "invalid_notification_type")
          ELSE IF Falsy(n) \/ Falsy(st) \/ st \notin StatusValues
          THEN StatusRespond(rec, 400, "validation_error")
          ELSE [rec EXCEPT !.pc = "set"]]
  /\ UNCHANGED <<channel, MAX_ATTEMPTS, store, dl, timers, failedQ, sends, sendlog, produced, crashes, gw, channelOpen, breaker, statusRecs>>

\* await redis.set(`status:${notification_id}`, ..., "EX", STATUS_TTL_SECONDS)
\* resumes; 200 status_updated.  (A rejected command is caught and
\* answered 500 redis_error.)
StatusSetReply(h) ==
  /\ sreq[h].pc = "set"
  /\ LET q == sreq[h]
         data == statusData(q.notification_id, q.status, q.timestamp, q.error)
     IN statusRecs' = [statusRecs EXCEPT ![statusKey(q.notification_id)] =
                         StatusRecord(data, STATUS_TTL_SECONDS)]
  /\ sreq' = [sreq EXCEPT ![h] = StatusRespond(@, 200, "status_updated")]
  /\ UNCHANGED <<channel, MAX_ATTEMPTS, store, dl, timers, failedQ, sends, sendlog, produced, crashes, gw, channelOpen, breaker>>

(* --------------------------- specifications ---------------------------- *)
Init ==
  /\ channel \in Channels
  /\ MAX_ATTEMPTS \in 1..MaxAttemptsBound
  /\ store = [k \in Keys |-> Absent]
  /\ dl = [d \in DeliveryIds |-> NoDelivery]
  /\ timers = {}
  /\ failedQ = <<>>
  /\ sends = [k \in WorkerKeys |-> 0]
  /\ sendlog = [k \in WorkerKeys |-> <<>>]
  /\ produced = 0
  /\ crashes = 0
  /\ gw = [h \in RequestNos |-> NoRequest]
  /\ channelOpen = TRUE
  /\ breaker = NewBreaker
  /\ statusRecs = [k \in StatusKeys |-> NoStatusRecord]
  /\ sreq = [h \in StatusRequestNos |-> NoStatusRequest]

\* The status store is a server of its own, shared with other clients: the
\* records the gateway's key family holds when the gateway starts are not
\* decided by the gateway.
InitialGatewayRecords ==
  {Absent, Record("pending", "", IDEMPOTENCY_TTL_SECONDS),
   Record("failed", "Channel closed", IDEMPOTENCY_TTL_SECONDS)}

InitGateway ==
  /\ channel \in Channels
  /\ MAX_ATTEMPTS \in 1..MaxAttemptsBound
  /\ \E g \in [GatewayKeys -> InitialGatewayRecords] :
       store = [k \in Keys |-> IF k \in GatewayKeys THEN g[k] ELSE Absent]
  /\ dl = [d \in DeliveryIds |-> NoDelivery]
  /\ timers = {}
  /\ failedQ = <<>>
  /\ sends = [k \in WorkerKeys |-> 0]
  /\ sendlog = [k \in WorkerKeys |-> <<>>]
  /\ produced = 0
  /\ crashes = 0
  /\ gw = [h \in RequestNos |-> NoRequest]
  /\ channelOpen = TRUE
  /\ breaker = NewBreaker
  /\ statusRecs = [k \in StatusKeys |-> NoStatusRecord]
  /\ sreq = [h \in StatusRequestNos |-> NoStatusRequest]

WorkerStep ==
  \/ \E rid \in RequestIds \cup {NoRequestId}, body \in Bodies : Produce(rid, body)
  \/ \E d \in DeliveryIds : Deliver(d)
  \/ \E d \in DeliveryIds : GetReply(d)
  \/ \E d \in DeliveryIds : SetProcessingReply(d)
  \/ \E d \in DeliveryIds, o \in {"ok", "throw", "device_error"} : SendReply(d, o)
  \/ \E d \in DeliveryIds : SetDeliveredReply(d)
  \/ \E d \in DeliveryIds : SetFailedReply(d)
  \/ FireTimer

GatewayStep ==
  \/ \E h \in RequestNos, rid \in RequestIds, ntype \in Channels,
        body \in {"ok", "missing", "short"}, keyOk \in BOOLEAN :
       GwRequest(h, rid, ntype, body, keyOk)
  \/ \E h \in RequestNos : GwStoreReply(h)
  \/ GwChannelClose

\* Workers with the status store and the bus reachable, for as long as the
\* breaker's statistics window and its reset timeout have not run out.
Next == WorkerStep

Spec == Init /\ [][Next]_vars

\* Workers whose status-store commands can fail.
NextStoreFail == WorkerStep \/ \E d \in DeliveryIds : StoreFail(d)

SpecStoreFail == Init /\ [][NextStoreFail]_vars

\* Workers whose process can stop and restart.
NextCrash == WorkerStep \/ \E A \in SUBSET DeliveryIds : Crash(A)

SpecCrash == Init /\ [][NextCrash]_vars

\* The gateway's POST /notifications/ handler.
NextGateway == GatewayStep

SpecGateway == InitGateway /\ [][NextGateway]_vars

\* Workers over a time in which the breaker's statistics window and its
\* reset timeout can run out.
NextTimed == WorkerStep \/ BreakerResetTimeout \/ BreakerWindowRoll

SpecTimed == Init /\ [][NextTimed]_vars

\* The breaker at work: the messages have a recipient and carry no request
\* id, so that every delivery is a request of its own and a retry is
\* handled again; what the breaker does depends on the adapter's outcomes
\* and on time.
NextBreaker ==
  \/ Produce(NoRequestId, "ok")
  \/ \E d \in DeliveryIds : Deliver(d)
  \/ \E d \in DeliveryIds : GetReply(d)
  \/ \E d \in DeliveryIds : SetProcessingReply(d)
  \/ \E d \in DeliveryIds, o \in {"ok", "throw", "device_error"} : SendReply(d, o)
  \/ \E d \in DeliveryIds : SetDeliveredReply(d)
  \/ \E d \in DeliveryIds : SetFailedReply(d)
  \/ FireTimer
  \/ BreakerResetTimeout
  \/ BreakerWindowRoll

SpecBreaker == Init /\ [][NextBreaker]_vars

\* The workers with the time their timers wait made explicit: a timer's
\* callback runs when its delay has elapsed. (The other specifications
\* leave the clock out: there a pending timer's callback can run at any
\* step.)
NextClock ==
  \/ \E rid \in RequestIds \cup {NoRequestId}, body \in {"ok", "missing"} :
       Produce(rid, body)
  \/ \E d \in DeliveryIds : Deliver(d)
  \/ \E d \in DeliveryIds : GetReply(d)
  \/ \E d \in DeliveryIds : SetProcessingReply(d)
  \/ \E d \in DeliveryIds, o \in {"ok", "throw", "device_error"} : SendReply(d, o)
  \/ \E d \in DeliveryIds : SetDeliveredReply(d)
  \/ \E d \in DeliveryIds : SetFailedReply(d)
  \/ \E t \in timers : TimerExpire(t)
  \/ Tick

SpecClock == Init /\ [][NextClock]_vars

\* Restarts while retries are pending: messages of a request, with and
\* without a recipient, and a worker process that can stop and restart at
\* any step.
NextRestart ==
  \/ \E rid \in RequestIds, body \in {"ok", "missing"} : Produce(rid, body)
  \/ \E d \in DeliveryIds : Deliver(d)
  \/ \E d \in DeliveryIds : GetReply(d)
  \/ \E d \in DeliveryIds : SetProcessingReply(d)
  \/ \E d \in DeliveryIds, o \in {"ok", "throw", "device_error"} : SendReply(d, o)
  \/ \E d \in DeliveryIds : SetDeliveredReply(d)
  \/ \E d \in DeliveryIds : SetFailedReply(d)
  \/ FireTimer
  \/ \E A \in SUBSET DeliveryIds : Crash(A)

SpecRestart == Init /\ [][NextRestart]_vars

\* Status-store failures around the send: the messages have a recipient, so
\* that every delivery the guard lets through reaches the adapter, and any
\* status-store command of a handler can be rejected.
NextSendStoreFail ==
  \/ \E rid \in RequestIds \cup {NoRequestId} : Produce(rid, "ok")
  \/ \E d \in DeliveryIds : Deliver(d)
  \/ \E d \in DeliveryIds : GetReply(d)
  \/ \E d \in DeliveryIds : SetProcessingReply(d)
  \/ \E d \in DeliveryIds, o \in {"ok", "throw", "device_error"} : SendReply(d, o)
  \/ \E d \in DeliveryIds : SetDeliveredReply(d)
  \/ \E d \in DeliveryIds : SetFailedReply(d)
  \/ FireTimer
  \/ \E d \in DeliveryIds : StoreFail(d)

SpecSendStoreFail == Init /\ [][NextSendStoreFail]_vars

\* Gateway and worker together: submissions of request ids for the worker's
\* channel arrive at the gateway while the worker handles messages of the
\* same request ids.
NextPipeline ==
  \/ \E rid \in RequestIds : Produce(rid, "ok")
  \/ \E d \in DeliveryIds : Deliver(d)
  \/ \E d \in DeliveryIds : GetReply(d)
  \/ \E d \in DeliveryIds : SetProcessingReply(d)
  \/ \E d \in DeliveryIds, o \in {"ok", "throw", "device_error"} : SendReply(d, o)
  \/ \E d \in DeliveryIds : SetDeliveredReply(d)
  \/ \E d \in DeliveryIds : SetFailedReply(d)
  \/ FireTimer
  \/ \E h \in RequestNos, rid \in RequestIds : GwRequest(h, rid, channel, "ok", TRUE)
  \/ \E h \in RequestNos : GwStoreReply(h)

SpecPipeline == InitGateway /\ [][NextPipeline]_vars

\* The gateway's POST /:notification_type/status/ handler.
NextStatus ==
  \/ \E h \in StatusRequestNos, ntype \in {"email", "push", "sms"},
        body \in {"object", "null"}, n \in NotificationIds \cup {Missing},
        st \in StatusValues \cup {"sent", Missing},
        ts \in {"2025-01-01T00:00:00Z", "", Missing},
        er \in {"bounced", "", Missing}, keyOk \in BOOLEAN :
       StatusRequest(h, ntype, body, n, st, ts, er, keyOk)
  \/ \E h \in StatusRequestNos : StatusSetReply(h)

SpecStatus == Init /\ [][NextStatus]_vars

(* ------------------------------ claims --------------------------------- *)
RidKey(r) == idempotency_key(channel, r)

\* Nothing is left to happen for request id r: no delivery of r is queued
\* or being handled and no retry of r is waiting on a timer.
Settled(r) ==
  /\ \A d \in DeliveryIds :
       (dl[d].rid = r /\ dl[d].ch = channel) => dl[d].pc \notin {"queued"} \cup InFlight
  /\ \A t \in timers : t.rid # r
  /\ \E d \in DeliveryIds : dl[d].rid = r /\ dl[d].ch = channel /\ dl[d].pc # "none"

DeadLettered(k) == \E i \in 1..Len(failedQ) : failedQ[i].key = k

\* C1: with MAX_ATTEMPTS >= 2, once everything for a request id R whose
\* first adapter call failed (and whose later calls, if any, succeeded) has
\* run to the end, the adapter was called exactly twice for R and the
\* status record of R is `delivered`.
C1_RetryIsProcessedAndDelivered ==
  \A r \in RequestIds :
    ( /\ MAX_ATTEMPTS >= 2
      /\ Settled(r)
      /\ Len(sendlog[RidKey(r)]) >= 1
      /\ sendlog[RidKey(r)][1] # "ok"
      /\ \A i \in 2..Len(sendlog[RidKey(r)]) : sendlog[RidKey(r)][i] = "ok" )
    => /\ sends[RidKey(r)] = 2
       /\ store[RidKey(r)].status = "delivered"

\* C2: once everything for a request id R has run to the end, where every
\* message of R arrived without attempts and fails its recipient check on
\* every attempt, a FailedRecord of R with attempts = MAX_ATTEMPTS and the
\* error is on `failed` and the status record of R is `failed`.
C2_RetryLadderEndsDeadLettered ==
  \A r \in RequestIds :
    ( /\ Settled(r)
      /\ \A d \in DeliveryIds :
           (dl[d].rid = r /\ dl[d].pc # "none") =>
             /\ ValidationError(dl[d].ch, dl[d].body) # ""
             /\ dl[d].from # 0 \/ dl[d].att = NoAttempts )
    => /\ store[RidKey(r)].status = "failed"
       /\ \E i \in 1..Len(failedQ) :
            /\ failedQ[i].key = RidKey(r)
            /\ failedQ[i].attempts = MAX_ATTEMPTS
            /\ \E d \in DeliveryIds :
                 /\ dl[d].rid = r /\ dl[d].pc # "none"
                 /\ failedQ[i].error = ValidationError(dl[d].ch, dl[d].body)

\* C3: in every reachable state the adapter has been called at most once
\* for a request id, however the handlers of its deliveries interleave.
C3_AtMostOneSendPerRequestId ==
  \A r \in RequestIds : sends[RidKey(r)] <= 1

\* C4: a status record that is `delivered` or `failed` keeps that status in
\* every step, and a record never goes back from `processing` to absent.
C4_TerminalStatusNeverOverwritten ==
  [][\A k \in WorkerKeys :
       /\ store[k].status \in {"delivered", "failed"} => store'[k].status = store[k].status
       /\ store[k].status = "processing" => store'[k].status # "absent"]_vars

\* C5: a delivery is acknowledged exactly once: not before its handler has
\* run to the end, never twice, and once when the handler has ended,
\* whichever way it ended (the status store and the bus being reachable).
C5_AckedExactlyOnce ==
  \A d \in DeliveryIds :
    /\ dl[d].acks <= 1
    /\ dl[d].pc \in {"none", "queued"} \cup InFlight => dl[d].acks = 0
    /\ dl[d].pc \notin {"none", "queued"} \cup InFlight => dl[d].acks = 1

\* C6: a delivery during which a status-store command failed has its
\* attempts incremented, was retried or dead-lettered, and is acknowledged
\* when its handler ends; no such failure leaves the handler.
C6_StoreFailureIsDeliveryError ==
  \A d \in DeliveryIds :
    dl[d].err = "redis_error" =>
      /\ dl[d].pc \in {"setfailed", "done"}
      /\ dl[d].attempts = NormalizeAttempts(dl[d].att) + 1
      /\ dl[d].pc = "done" => dl[d].acks = 1

\* C7: when the redelivery of a message of request id R, whose handler
\* stopped with the `processing` record written and the delivery not
\* acknowledged, has been handled, the adapter has been called for R or R
\* has been dead-lettered.
C7_RedeliveryIsProcessed ==
  \A d \in DeliveryIds :
    ( /\ dl[d].redelivered
      /\ dl[d].rid \in RequestIds
      /\ dl[d].pc = "done"
      /\ dl[dl[d].from].wrote )
    => sends[KeyOf(d)] >= 1 \/ DeadLettered(KeyOf(d))

\* C8: a POST /notifications/ whose lookup found a record has answered 200
\* duplicate_request with the stored record, published nothing and written
\* nothing to the status store.
C8_DuplicateShortCircuits ==
  \A h \in RequestNos :
    gw[h].found =>
      /\ gw[h].pc = "done"
      /\ gw[h].code = 200
      /\ gw[h].message = "duplicate_request"
      /\ gw[h].data.status # "absent"
      /\ gw[h].data = store[idempotencyKey(gw[h].rid)]
      /\ gw[h].pubs = 0
      /\ gw[h].writes = 0

\* C8 witness: a request was answered as a duplicate.
C8_Witness ==
  \E h \in RequestNos : gw[h].found /\ gw[h].pc = "done" /\ gw[h].code = 200

\* C9: an authenticated POST /notifications/ whose lookup found nothing,
\* handled with the bus channel open, has written a record with the
\* idempotency TTL at idemp:<request_id>, published one message and
\* answered 202 accepted.
C9_FirstSubmissionAccepted ==
  \A h \in RequestNos :
    ( /\ gw[h].pc = "done"
      /\ gw[h].code # 401
      /\ ~gw[h].found
      /\ channelOpen )
    => /\ gw[h].code = 202
       /\ gw[h].message = "accepted"
       /\ gw[h].pubs = 1
       /\ store[idempotencyKey(gw[h].rid)].status # "absent"
       /\ store[idempotencyKey(gw[h].rid)].ex = IDEMPOTENCY_TTL_SECONDS

\* C10: an authenticated POST /notifications/ whose lookup found nothing,
\* received when the bus channel is closed (its publish can only fail), has
\* answered 500, left the record `failed` at idemp:<request_id> and
\* published nothing.
C10_PublishFailureRecorded ==
  \A h \in RequestNos :
    ( /\ gw[h].pc = "done"
      /\ gw[h].code # 401
      /\ ~gw[h].found
      /\ ~gw[h].open )
    => /\ gw[h].code = 500
       /\ gw[h].pubs = 0
       /\ store[idempotencyKey(gw[h].rid)].status = "failed"

\* C11: when a first submission of a request id resumes from its lookup
\* (which found nothing) while another first submission of the same request
\* id has also read the record as absent, with the bus channel open, it
\* publishes its message and answers 202: both submissions are admitted.
C11_ConcurrentFirstSubmissionsBothAdmitted ==
  [][\A h \in RequestNos :
       ( /\ gw[h].pc = "setpending"
         /\ gw'[h].pc = "done"
         /\ channelOpen
         /\ \E g \in RequestNos :
              /\ g # h
              /\ gw[g].rid = gw[h].rid
              /\ ~gw[g].found
              /\ \/ gw[g].pc = "setpending"
                 \/ gw[g].pc = "done" /\ gw[g].code # 401 )
       => /\ gw'[h].code = 202
          /\ gw'[h].pubs = 1]_vars

\* C12: a POST /notifications/ for request id R that arrived when the
\* worker's record of R was `delivered` or `failed`, and is answered with
\* that record unchanged and nothing of R queued, in flight or waiting on a
\* timer, is answered 200 with the record in that terminal status.
C12_DuplicateObservesWorkerOutcome ==
  [][\A h \in RequestNos :
       LET k == idempotency_key(gw[h].ntype, gw[h].rid) IN
       ( /\ gw[h].pc = "get"
         /\ gw'[h].pc # "get"
         /\ gw[h].ntype = channel
         /\ Settled(gw[h].rid)
         /\ gw[h].worker \in {"delivered", "failed"}
         /\ store[k].status = gw[h].worker )
       => /\ gw'[h].pc = "done"
          /\ gw'[h].code = 200
          /\ gw'[h].data.status = store[k].status]_vars

\* C13: in every reachable state in which a FailedRecord of request id R is
\* on routing key `failed`, the status record of R is not `delivered`.
C13_NeverDeliveredAfterDeadLetter ==
  \A r \in AllIds :
    DeadLettered(RidKey(r)) => store[RidKey(r)].status # "delivered"

\* C14: a request id that has been dead-lettered has had at least one and
\* at most MAX_ATTEMPTS adapter calls, and a request id whose status record
\* is `delivered` has had exactly one.
C14_SendCountBounds ==
  \A r \in AllIds :
    /\ DeadLettered(RidKey(r)) =>
         sends[RidKey(r)] >= 1 /\ sends[RidKey(r)] <= MAX_ATTEMPTS
    /\ store[RidKey(r)].status = "delivered" => sends[RidKey(r)] = 1

\* The breaker turned delivery d away.
Rejected(d) == dl[d].err = BreakerOpenError

\* C15: a delivery that passes its recipient check while the breaker is
\* open does not call the adapter: its attempts are incremented and it is
\* either retried (timer started, acknowledged) or dead-lettered
\* (FailedRecord published, `failed` write outstanding); and a delivery the
\* breaker turned away is acknowledged once when its handler has ended.
C15_OpenBreakerShortCircuits ==
  /\ [][\A d \in DeliveryIds :
          ( /\ dl[d].pc = "setproc"
            /\ dl'[d].pc # "setproc"
            /\ ValidationError(dl[d].ch, dl[d].body) = ""
            /\ breaker.state = "open" )
          => /\ sends' = sends
             /\ Rejected(d)'
             /\ dl'[d].attempts = dl[d].attempts + 1
             /\ IF dl'[d].attempts >= MAX_ATTEMPTS
                THEN /\ dl'[d].pc = "setfailed"
                     /\ Len(failedQ') = Len(failedQ) + 1
                     /\ failedQ'[Len(failedQ')].from = d
                     /\ timers' = timers
                ELSE /\ dl'[d].pc = "done"
                     /\ dl'[d].acks = 1
                     /\ \E t \in timers' \ timers :
                          t.from = d /\ t.attempts = dl'[d].attempts
                     /\ failedQ' = failedQ]_vars
  /\ [](\A d \in DeliveryIds :
          Rejected(d) =>
            /\ dl[d].pc \in {"setfailed", "done"}
            /\ dl[d].pc = "done" => dl[d].acks = 1)

\* C15 witness: the breaker, opened by the failed send of one request id,
\* has turned away a delivery of another request id, for which the adapter
\* was never called, and that delivery has been acknowledged.
C15_Witness ==
  \E d \in DeliveryIds, e \in DeliveryIds :
    /\ KeyOf(d) # KeyOf(e)
    /\ Rejected(d)
    /\ dl[d].pc = "done"
    /\ dl[d].acks = 1
    /\ sends[KeyOf(d)] = 0
    /\ dl[e].err = SendError("throw")
    /\ breaker.state = "open"

\* A request a status record is to be written for.
StatusValid(q) ==
  /\ q.keyOk
  /\ q.notification_type \in {"email", "push"}
  /\ q.notification_id # Missing
  /\ q.status \in StatusValues

\* C16: a step changes a record at status:<notification_id> only by
\* answering 200 to a request with a valid key, channel email or push, a
\* notification_id and a status of delivered, pending or failed, and the
\* record then holds the notification_id and status provided and the
\* timestamp and error if provided; such a request is answered 200, a
\* request with a bad key 401, and a request with a good key and an
\* unknown channel or a missing or invalid notification_id or status 400.
C16_StatusIngestion ==
  /\ [][statusRecs' # statusRecs =>
          \E h \in StatusRequestNos :
            LET q == sreq[h]
                k == statusKey(q.notification_id) IN
            /\ StatusValid(q)
            /\ q.pc = "set"
            /\ sreq'[h].pc = "done"
            /\ sreq'[h].code = 200
            /\ \A j \in StatusKeys \ {k} : statusRecs'[j] = statusRecs[j]
            /\ statusRecs'[k].notification_id = q.notification_id
            /\ statusRecs'[k].status = q.status
            /\ q.timestamp # Missing => statusRecs'[k].timestamp = q.timestamp
            /\ q.error # Missing => statusRecs'[k].error = q.error]_vars
  /\ [](\A h \in StatusRequestNos :
          sreq[h].pc = "done" =>
            /\ StatusValid(sreq[h]) => sreq[h].code = 200
            /\ ~sreq[h].keyOk => sreq[h].code = 401
            /\ (sreq[h].keyOk /\ ~StatusValid(sreq[h])) => sreq[h].code = 400)

C18_InvalidJsonAckedAndDropped ==
  /\ [](\A d \in DeliveryIds :
          dl[d].body = "badjson" =>
            /\ dl[d].pc \in {"none", "queued", "done"}
            /\ dl[d].pc = "done" => dl[d].acks = 1 /\ dl[d].err = ""
            /\ \A t \in timers : t.from # d
            /\ \A i \in 1..Len(failedQ) : failedQ[i].from # d)
  /\ [][\A d \in DeliveryIds :
          (dl[d].pc = "queued" /\ dl[d].body = "badjson" /\ dl'[d].pc # "queued") =>
            /\ UNCHANGED <<store, sends, sendlog, breaker, timers, failedQ>>
            /\ \A e \in DeliveryIds \ {d} : dl'[e] = dl[e]]_vars

\* C18 witness: a delivery that is not valid JSON has been acknowledged.
C18_Witness ==
  \E d \in DeliveryIds :
    dl[d].body = "badjson" /\ dl[d].pc = "done" /\ dl[d].acks = 1

\* Delivery d has published its FailedRecord.
PublishedFailed(d) == \E i \in 1..Len(failedQ) : failedQ[i].from = d /\ failedQ[i].error = dl[d].err

\* C19: on the dead-letter path the step that publishes the FailedRecord of
\* a delivery leaves it unacknowledged with the `failed` write outstanding;
\* while that write is outstanding the FailedRecord is on `failed` and the
\* delivery is unacknowledged; and the step that acknowledges it comes with
\* the status record written as `failed` with the error, after the publish.
C19_DeadLetterOrder ==
  /\ [](\A d \in DeliveryIds :
          dl[d].pc = "setfailed" => PublishedFailed(d) /\ dl[d].acks = 0)
  /\ [][\A d \in DeliveryIds :
          /\ ( /\ Len(failedQ') > Len(failedQ)
               /\ failedQ'[Len(failedQ')].from = d )
             => /\ dl[d].acks = 0
                /\ dl'[d].acks = 0
                /\ dl'[d].pc = "setfailed"
          /\ ( /\ \E i \in 1..Len(failedQ') : failedQ'[i].from = d
               /\ dl'[d].acks > dl[d].acks )
             => /\ PublishedFailed(d)
                /\ dl[d].pc = "setfailed"
                /\ dl'[d].acks = 1
                /\ store'[KeyOf(d)].status = "failed"
                /\ store'[KeyOf(d)].error = dl[d].err]_vars

\* C19 witness: a dead-lettered delivery has been acknowledged.
C19_Witness ==
  \E d \in DeliveryIds :
    /\ PublishedFailed(d)
    /\ dl[d].pc = "done"
    /\ dl[d].acks = 1
    /\ store[KeyOf(d)].status = "failed"

\* C20: the adapter is called for a request id only in the step in which
\* the write of its `processing` record is answered, and that step leaves
\* the record `processing`; while a call is outstanding, and ever after a
\* call was made, the record of the request id is present.
C20_ProcessingWrittenBeforeSend ==
  /\ [](\A d \in DeliveryIds :
          (dl[d].pc = "send" \/ (dl[d].pc # "none" /\ sends[KeyOf(d)] > 0)) =>
            store[KeyOf(d)].status # "absent")
  /\ [][\A k \in WorkerKeys :
          sends'[k] > sends[k] =>
            /\ store'[k].status = "processing"
            /\ \E d \in DeliveryIds :
                 KeyOf(d) = k /\ dl[d].pc = "setproc" /\ dl'[d].pc = "send"]_vars

\* C20 witness: an adapter call is outstanding and the record of its
\* request id is `processing`.
C20_Witness ==
  \E d \in DeliveryIds :
    /\ dl[d].pc = "send"
    /\ sends[KeyOf(d)] = 1
    /\ store[KeyOf(d)].status = "processing"

\* Delivery d failed and took the retry path in this step.
RetryStep(d) ==
  /\ dl[d].pc \in InFlight
  /\ dl'[d].pc = "done"
  /\ dl'[d].err # ""
  /\ dl'[d].attempts < MAX_ATTEMPTS

\* C21: the step in which a failed delivery with attempts below
\* MAX_ATTEMPTS ends acknowledges it with its republish timer started and
\* still pending, publishes nothing to `failed` and writes no terminal
\* status; and the step in which a timer fires puts exactly one message on
\* the worker's own queue, with the request_id of the message that failed,
\* and changes neither the `failed` queue nor the status store.
C21_RetryPath ==
  /\ [][\A d \in DeliveryIds :
          RetryStep(d) =>
            /\ dl'[d].acks = 1
            /\ \E t \in timers' \ timers :
                 t.from = d /\ t.ch = dl[d].ch /\ t.rid = dl[d].rid
            /\ failedQ' = failedQ
            /\ \/ store'[KeyOf(d)] = store[KeyOf(d)]
               \/ store'[KeyOf(d)].status = "processing"]_vars
  /\ [][\A t \in timers \ timers' :
          /\ failedQ' = failedQ
          /\ store' = store
          /\ \E s \in DeliveryIds :
               /\ dl[s].pc = "none"
               /\ dl'[s].pc = "queued"
               /\ dl'[s].ch = t.ch
               /\ dl'[s].ch = channel
               /\ dl'[s].rid = t.rid
               /\ dl'[s].rid = dl[t.from].rid
               /\ \A x \in DeliveryIds \ {s} : dl'[x] = dl[x]]_vars

\* C21 witness: the message of a failed and acknowledged delivery has been
\* published again by its timer.
C21_Witness ==
  \E d \in DeliveryIds, s \in DeliveryIds :
    /\ dl[s].from = d
    /\ ~dl[s].redelivered
    /\ dl[s].pc = "queued"
    /\ dl[d].pc = "done"
    /\ dl[d].acks = 1
    /\ dl[d].err # ""
    /\ timers = {}
    /\ failedQ = <<>>

\* C22: the timer started for a failed delivery whose attempts after the
\* increment are a (1 <= a < MAX_ATTEMPTS) has the delay 2000 * 2^(a-1) ms,
\* that is 2000, 4000, 8000, ...; and when its message is republished at
\* least that much time has passed since it was started.
C22_BackoffDelay ==
  /\ [](\A t \in timers :
          /\ t.attempts >= 1
          /\ t.attempts < MAX_ATTEMPTS
          /\ t.delay = 2000 * 2 ^ (t.attempts - 1)
          /\ t.attempts = 1 => t.delay = 2000
          /\ t.attempts = 2 => t.delay = 4000
          /\ t.attempts = 3 => t.delay = 8000
          /\ t.attempts = dl[t.from].attempts)
  /\ [][\A d \in DeliveryIds :
          RetryStep(d) =>
            \E t \in timers' \ timers :
              /\ t.from = d
              /\ t.attempts = dl[d].attempts + 1
              /\ t.left = 2000 * 2 ^ (t.attempts - 1)]_vars
  /\ [][\A t \in timers :
          (\A u \in timers' : u.from # t.from) =>
            t.delay - t.left >= 2000 * 2 ^ (t.attempts - 1)]_vars

\* C22 witness: the message of a delivery that failed for the second time
\* has been republished, 4000 ms after its timer was started.
C22_Witness ==
  \E d \in DeliveryIds, s \in DeliveryIds :
    /\ dl[s].from = d
    /\ dl[s].pc = "queued"
    /\ dl[s].att = 2
    /\ dl[d].attempts = 2
    /\ dl[d].acks = 1

\* The attempts a message counts for: those it carries, or 0 if it carries
\* none.
AttemptsOf(d) == IF dl[d].att = NoAttempts THEN 0 ELSE dl[d].att

\* C23: every pending republish, every republished message and every
\* FailedRecord carries the attempts of the delivery that failed plus one,
\* where a message without `attempts` counts as 0; and no step of a handler
\* changes the attempts of the message it was given or lowers the value it
\* counts.
C23_AttemptsMonotone ==
  /\ [](/\ \A t \in timers : t.attempts = AttemptsOf(t.from) + 1
        /\ \A i \in 1..Len(failedQ) :
             failedQ[i].attempts = AttemptsOf(failedQ[i].from) + 1
        /\ \A s \in DeliveryIds :
             (dl[s].pc # "none" /\ dl[s].from # 0 /\ ~dl[s].redelivered) =>
               /\ dl[s].att = AttemptsOf(dl[s].from) + 1
               /\ AttemptsOf(s) > AttemptsOf(dl[s].from)
        /\ \A d \in DeliveryIds :
             dl[d].pc \in InFlight \ {"setfailed"} => dl[d].attempts = AttemptsOf(d))
  /\ [][\A d \in DeliveryIds :
          dl[d].pc # "none" =>
            /\ dl'[d].att = dl[d].att
            /\ dl[d].pc # "queued" => dl'[d].attempts >= dl[d].attempts]_vars

\* C23 witness: a message without `attempts` failed and was republished
\* with attempts 1, and its second failure published a FailedRecord with
\* attempts 2.
C23_Witness ==
  \E i \in 1..Len(failedQ) :
    LET s == failedQ[i].from IN
      /\ failedQ[i].attempts = 2
      /\ dl[s].att = 1
      /\ dl[s].from # 0
      /\ dl[dl[s].from].att = NoAttempts

\* Delivery d failed, was acknowledged with a retry scheduled, and the
\* process restarted before the timer ran: the timer is gone and its message
\* was never published.
RetryLost(d) ==
  /\ dl[d].pc = "done"
  /\ dl[d].acks = 1
  /\ dl[d].err # ""
  /\ dl[d].attempts < MAX_ATTEMPTS
  /\ crashes > 0
  /\ \A t \in timers : t.from # d
  /\ \A s \in DeliveryIds : dl[s].pc # "none" => dl[s].from # d

\* C24: a restart of the worker process removes every pending retry timer
\* and publishes nothing for it; and once the retry of a request's only
\* message is lost that way, no message of the request is queued or being
\* handled, no FailedRecord has been published, and the request's status
\* record is `processing`, with its TTL.
C24_RestartDropsRetry ==
  /\ [][crashes' # crashes =>
          /\ timers' = {}
          /\ failedQ' = failedQ
          /\ \A t \in timers, s \in DeliveryIds :
               dl'[s].pc # "none" /\ dl'[s].from = t.from => dl'[s] = dl[s]]_vars
  /\ [](\A d \in DeliveryIds :
          RetryLost(d) /\ produced = 1 =>
            /\ \A x \in DeliveryIds : dl[x].pc \in {"none", "done", "crashed"}
            /\ failedQ = <<>>
            /\ store[KeyOf(d)].status = "processing"
            /\ store[KeyOf(d)].ex = IDEMPOTENCY_TTL_SECONDS)

\* C24 witness: the only message of a request failed, its retry was lost in
\* a restart, and the request's record is `processing`.
C24_Witness ==
  \E d \in DeliveryIds :
    /\ RetryLost(d)
    /\ produced = 1
    /\ dl[d].rid \in RequestIds
    /\ store[KeyOf(d)].status = "processing"
    /\ failedQ = <<>>

\* C25: a POST /notifications/ for request id R that arrived after an
\* authenticated first submission of R, received with the bus channel closed
\* (its publish can only fail), had been answered 500, is answered 200
\* duplicate_request with the `failed` record and publishes nothing.
C25_FailedSubmissionBlocksResubmission ==
  [][\A h \in RequestNos :
       ( /\ gw[h].pc = "get"
         /\ gw'[h].pc # "get"
         /\ \E g \in gw[h].after :
              /\ gw[g].rid = gw[h].rid
              /\ gw[g].pc = "done"
              /\ gw[g].code = 500
              /\ ~gw[g].found
              /\ ~gw[g].open )
       => /\ gw'[h].pc = "done"
          /\ gw'[h].code = 200
          /\ gw'[h].message = "duplicate_request"
          /\ gw'[h].data.status = "failed"
          /\ gw'[h].pubs = 0]_vars

\* The adapter send of the request with key k has succeeded at least once.
SendSucceeded(k) == \E i \in 1..Len(sendlog[k]) : sendlog[k][i] = "ok"

\* C26: a handler waiting for its `delivered` write has a successful send
\* behind it; when it resumes, either the write was done and the delivery is
\* acknowledged without error, or the write failed and the delivery takes
\* the failure path: attempts is incremented and, below MAX_ATTEMPTS, a
\* retry timer is started and the delivery acknowledged, otherwise a
\* FailedRecord is published and the `failed` write issued.
C26_DeliveredWriteFailure ==
  /\ [](\A d \in DeliveryIds : dl[d].pc = "setdeliv" => SendSucceeded(KeyOf(d)))
  /\ [][\A d \in DeliveryIds :
          (dl[d].pc = "setdeliv" /\ dl'[d] # dl[d]) =>
            \/ /\ dl'[d].err = ""
               /\ dl'[d].pc = "done"
               /\ dl'[d].acks = 1
               /\ store'[KeyOf(d)].status = "delivered"
            \/ /\ dl'[d].err # ""
               /\ store' = store
               /\ dl'[d].attempts = dl[d].attempts + 1
               /\ IF dl'[d].attempts >= MAX_ATTEMPTS
                  THEN /\ dl'[d].pc = "setfailed"
                       /\ Len(failedQ') = Len(failedQ) + 1
                       /\ failedQ'[Len(failedQ')].from = d
                       /\ failedQ'[Len(failedQ')].key = KeyOf(d)
                       /\ failedQ'[Len(failedQ')].attempts = dl'[d].attempts
                       /\ timers' = timers
                  ELSE /\ dl'[d].pc = "done"
                       /\ dl'[d].acks = 1
                       /\ failedQ' = failedQ
                       /\ \E t \in timers' \ timers :
                            t.from = d /\ t.attempts = dl'[d].attempts]_vars

\* C26 witness: a FailedRecord has been published for a request whose send
\* succeeded, because its `delivered` write failed, and the request is not
\* recorded as delivered.
C26_Witness ==
  \E i \in 1..Len(failedQ) :
    /\ failedQ[i].error = "redis_error"
    /\ SendSucceeded(failedQ[i].key)
    /\ store[failedQ[i].key].status # "delivered"

====
